---- MODULE Spec2Model ----
(***************************************************************************)
(* Job-matrix test partitioning (scripts/rq2/pick_random_tests.py) and     *)
(* matrix entry lookup (scripts/extract_matrix_tests.py).                  *)
(*                                                                         *)
(* Two command-line programs that share one file: the partitioner writes   *)
(* a job matrix, the resolver reads a job matrix and prints the tests of   *)
(* the entry matching (commit, job_id).  A run of the model is either the  *)
(* baseline pipeline (partitioner, then resolver on the file it wrote) or  *)
(* a resolver run on a matrix file left by an upstream generator.          *)
(*                                                                         *)
(* Text is modelled as a sequence of one-character strings, so that        *)
(* prefix tests, str() and int() are computed and not assumed.             *)
(***************************************************************************)
EXTENDS Integers, Sequences, FiniteSets, TLC

VARIABLES
    ppc,            \* partitioner: position in main()
    corpus,         \* what test discovery returns (ctest / z3test scan)
    seed,           \* args.seed
    all_tests,      \* main(): all_tests
    shuffled_tests, \* main(): shuffled_tests
    tests_per_job,  \* main(): tests_per_job
    jobs,           \* main(): jobs
    file,           \* the matrix file on disk (args.output / sys.argv[1])
    p_exit,         \* partitioner exit status, -1 while running
    entropy,        \* state of the random module's generator when the process starts
    prev_run,       \* the file an earlier run with the same arguments wrote, kept aside
    rpc,            \* resolver: position in main()
    argv,           \* resolver: sys.argv[2], sys.argv[3]
    matrix_data,    \* resolver: matrix_data after json.load
    r_stdout,       \* resolver: lines printed to standard output
    r_stderr,       \* resolver: number of diagnostics printed to the error stream
    r_exit,         \* resolver exit status, -1 while running
    r_raised        \* resolver: exception that left main() unhandled, or "none"

hvars == <<entropy, prev_run>>
pvars == <<ppc, corpus, seed, all_tests, shuffled_tests, tests_per_job, jobs, p_exit,
           entropy, prev_run>>
rvars == <<rpc, argv, matrix_data, r_stdout, r_stderr, r_exit, r_raised>>
vars == <<ppc, corpus, seed, all_tests, shuffled_tests, tests_per_job, jobs, file,
          p_exit, entropy, prev_run,
          rpc, argv, matrix_data, r_stdout, r_stderr, r_exit, r_raised>>

(***************************************************************************)
(* Bounds of the model.                                                    *)
(***************************************************************************)
MaxTests == 13      \* longest corpus
MaxSeed == 0        \* seeds 0..MaxSeed, and the default 42
MaxEntries == 2     \* longest include list of an upstream matrix
MaxEntropy == 1     \* generator states 0..MaxEntropy a process may start with

TestIds == {"t1", "t2", "t3"}
Seeds == (0..MaxSeed) \cup {42}

SeqsUpTo(S, n) == UNION {[1..k -> S] : k \in 0..n}

Rep(t, n) == [k \in 1..n |-> t]
Reverse(s) == [k \in 1..Len(s) |-> s[Len(s) + 1 - k]]

\* Corpora as discovery returns them: names in sorted order (the z3test scan
\* sorts, line 41), or in the opposite order (ctest order is the build's);
\* a name may occur more than once.
SortedCorpora ==
    {Rep("t1", a) \o Rep("t2", b) \o Rep("t3", c) :
        <<a, b, c>> \in {x \in (0..MaxTests) \X (0..MaxTests) \X (0..MaxTests) :
                            x[1] + x[2] + x[3] <= MaxTests}}

Corpora == SortedCorpora \cup {Reverse(c) : c \in SortedCorpora}

(***************************************************************************)
(* Helpers on sequences.                                                   *)
(***************************************************************************)
RECURSIVE Pow2(_)
Pow2(k) == IF k = 0 THEN 1 ELSE 2 * Pow2(k - 1)

Min(a, b) == IF a < b THEN a ELSE b

\* the slice written s[lo:], without its upper end
SliceToEnd(s, lo, hi) == SubSeq(s, lo + 1, Len(s))

\* Python slice s[lo:hi] with 0-based lo <= hi, clipped at len(s).
Slice(s, lo, hi) == SubSeq(s, lo + 1, Min(hi, Len(s)))

\* the swap written as two assignments without a temporary
SwapOverwrite(x, i, j) == [x EXCEPT ![i + 1] = x[j + 1]]

\* x[i], x[j] = x[j], x[i] with 0-based i, j
Swap(x, i, j) == [x EXCEPT ![i + 1] = x[j + 1], ![j + 1] = x[i + 1]]

(***************************************************************************)
(* random.seed(args.seed); random.shuffle(shuffled_tests).                 *)
(* The generator is the library's; it is stood in for by a full-period     *)
(* 16-bit linear congruential generator, a function of the seed alone.     *)
(* The shuffle on top of it is the library's Fisher-Yates loop with        *)
(* rejection sampling for the index.                                       *)
(***************************************************************************)
RngSeed(a) == (IF a < 0 THEN -a ELSE a) % 65536

RngNext(s) == (s * 25173 + 13849) % 65536

\* getrandbits(k): the top k bits of the next state
GetRandBits(s, k) == RngNext(s) \div Pow2(16 - k)

RECURSIVE BitLength(_)
BitLength(n) == IF n = 0 THEN 0 ELSE 1 + BitLength(n \div 2)

\* _randbelow(n): draw bit_length(n) bits until the value is below n.
\* Returns <<value, generator state after the draws>>.
RECURSIVE RandBelow(_, _)
RandBelow(s, n) ==
    LET r == GetRandBits(s, BitLength(n))
    IN IF r < n THEN <<r, RngNext(s)>> ELSE RandBelow(RngNext(s), n)

\* for i in reversed(range(1, len(x))): j = randbelow(i + 1); swap x[i], x[j]
RECURSIVE ShuffleFrom(_, _, _)
ShuffleFrom(x, i, s) ==
    IF i < 1 THEN x
    ELSE LET d == RandBelow(s, i + 1)
         IN ShuffleFrom(Swap(x, i, d[1]), i - 1, d[2])

Shuffle(x, sd) == ShuffleFrom(x, Len(x) - 1, RngSeed(sd))

\* the shuffle without random.seed: it draws from the state the process began with
ShuffleUnseeded(g, x, sd) == ShuffleFrom(x, Len(x) - 1, g)

\* random.seed(args.seed) replaces the generator state g the process began
\* with; the shuffle then draws from the seeded state.
SeedAndShuffle(g, x, sd) == Shuffle(x, sd)

(***************************************************************************)
(* The split loop of main():                                               *)
(*   for i in range(0, len(shuffled_tests), tests_per_job): ...            *)
(***************************************************************************)
\* the ceiling written with + 4 for + 3
TestsPerJobOffByOne(n) == (n + 4) \div 4

TestsPerJob(n) == (n + 3) \div 4

\* the split loop numbering its jobs from 1
RECURSIVE SplitFromOneBased(_, _, _)
SplitFromOneBased(sh, tpj, i) ==
    IF i >= Len(sh) THEN <<>>
    ELSE <<[job_id |-> (i \div tpj) + 1, tests |-> Slice(sh, i, i + tpj)]>>
         \o SplitFromOneBased(sh, tpj, i + tpj)

RECURSIVE SplitFrom(_, _, _)
SplitFrom(sh, tpj, i) ==
    IF i >= Len(sh) THEN <<>>
    ELSE <<[job_id |-> i \div tpj, tests |-> Slice(sh, i, i + tpj)]>>
         \o SplitFrom(sh, tpj, i + tpj)

SplitJobs(sh, tpj) == SplitFrom(sh, tpj, 0)

(***************************************************************************)
(* JSON values.  A job id is a number, a text or absent; Python's None is  *)
(* what dict.get returns for an absent key.  An object is a record whose   *)
(* DOMAIN is the set of keys present.  An include entry is tagged with     *)
(* whether it is an object (isinstance(entry, dict)).                      *)
(***************************************************************************)
JInt(n) == [kind |-> "int", v |-> n]
JStr(t) == [kind |-> "str", v |-> t]
PyNone == [kind |-> "none", v |-> 0]

DictEntry(d) == [isdict |-> TRUE, d |-> d]
NonDictEntry == [isdict |-> FALSE]

\* json.dump(output, f) followed by json.load(f): the document the partitioner
\* writes, as the value a reader gets back (numbers stay numbers, lists lists).
JobToJson(j) == DictEntry([job_id |-> JInt(j.job_id), tests |-> j.tests])

OutputDoc(js, n, tpj) ==
    [matrix |-> [include |-> [k \in 1..Len(js) |-> JobToJson(js[k])]],
     total_tests |-> n,
     total_jobs |-> Len(js),
     tests_per_job |-> tpj]

FileMissing == [state |-> "missing"]
FileInvalid == [state |-> "invalid"]
FileJson(doc) == [state |-> "json", doc |-> doc]

(***************************************************************************)
(* str() and int() on the texts of the model.                              *)
(***************************************************************************)
Digits == <<"0", "1", "2", "3", "4", "5", "6", "7", "8", "9">>

IsDigit(c) == \E d \in 1..10 : Digits[d] = c
DigitVal(c) == (CHOOSE d \in 1..10 : Digits[d] = c) - 1

\* str(n) for an int n >= 0
RECURSIVE NatToText(_)
NatToText(n) ==
    IF n < 10 THEN <<Digits[n + 1]>>
    ELSE NatToText(n \div 10) \o <<Digits[(n % 10) + 1]>>

NoneText == <<"N", "o", "n", "e">>

\* str(x) for a stored job id x
PyStr(x) ==
    CASE x.kind = "int" -> NatToText(x.v)
      [] x.kind = "str" -> x.v
      [] OTHER -> NoneText

RECURSIVE DigitsToNat(_)
DigitsToNat(t) ==
    IF t = <<>> THEN 0
    ELSE DigitsToNat(SubSeq(t, 1, Len(t) - 1)) * 10 + DigitVal(t[Len(t)])

\* try: job_id_int = int(job_id) / except ValueError: job_id_int = None
\* on texts made of digits and letters: a non-empty run of digits parses.
PyInt(t) ==
    IF t # <<>> /\ \A k \in 1..Len(t) : IsDigit(t[k])
    THEN [ok |-> TRUE, v |-> DigitsToNat(t)]
    ELSE [ok |-> FALSE, v |-> 0]

\* s.startswith(p)
StartsWith(s, p) == Len(p) <= Len(s) /\ SubSeq(s, 1, Len(p)) = p

(***************************************************************************)
(* find_matching_entry(matrix_data, commit, job_id)                        *)
(***************************************************************************)
\* entry.get('commit', '')
EntryCommit(entry) == IF "commit" \in DOMAIN entry.d THEN entry.d.commit ELSE <<>>

\* the match without its third case (entry commit a prefix of the query)
CommitMatchesQueryPrefixOnly(entry_commit, commit) ==
    \/ entry_commit = commit
    \/ StartsWith(entry_commit, commit)

CommitMatches(entry_commit, commit) ==
    \/ entry_commit = commit
    \/ StartsWith(entry_commit, commit)
    \/ StartsWith(commit, entry_commit)

\* entry.get('fuzzer_job', {}).get('job_id')
EntryJobId(entry) ==
    IF "fuzzer_job" \in DOMAIN entry.d /\ "job_id" \in DOMAIN entry.d.fuzzer_job
    THEN entry.d.fuzzer_job.job_id
    ELSE PyNone

\* entry.get('fuzzer_job', {}).get('tests', [])
EntryTests(entry) ==
    IF "fuzzer_job" \in DOMAIN entry.d /\ "tests" \in DOMAIN entry.d.fuzzer_job
    THEN entry.d.fuzzer_job.tests
    ELSE <<>>

\* the match by text alone, without the numeric comparison
JobIdMatchesTextOnly(entry_job_id, job_id) == PyStr(entry_job_id) = job_id

JobIdMatches(entry_job_id, job_id) ==
    LET job_id_int == PyInt(job_id)
    IN \/ PyStr(entry_job_id) = job_id
       \/ (job_id_int.ok /\ entry_job_id.kind = "int" /\ entry_job_id.v = job_id_int.v)

EntryMatches(entry, commit, job_id) ==
    /\ entry.isdict
    /\ CommitMatches(EntryCommit(entry), commit)
    /\ JobIdMatches(EntryJobId(entry), job_id)

Returned(tests) == [out |-> "tests", tests |-> tests]
ReturnedNone == [out |-> "none", tests |-> <<>>]
RaisedValueError == [out |-> "ValueError", tests |-> <<>>]

\* the for loop over matrix_data['include'], from the i-th entry on
RECURSIVE ScanFrom(_, _, _, _)
ScanFrom(include, i, commit, job_id) ==
    IF i > Len(include) THEN ReturnedNone
    ELSE IF EntryMatches(include[i], commit, job_id)
         THEN Returned(EntryTests(include[i]))
         ELSE ScanFrom(include, i + 1, commit, job_id)

find_matching_entry(md, commit, job_id) ==
    IF "include" \notin DOMAIN md THEN RaisedValueError
    ELSE ScanFrom(md.include, 1, commit, job_id)

(***************************************************************************)
(* Inputs: matrix files of an upstream generator, and resolver arguments.  *)
(***************************************************************************)
StoredCommits == {<<"a">>, <<"a", "b">>}
QueryCommits == {<<>>, <<"a">>, <<"a", "b">>, <<"b">>}

StoredJobIds == {JInt(2), JStr(<<"2">>), JStr(<<"0", "2">>)}
\* job ids asked of an upstream matrix, and of the partitioner's own matrix
QueryJobIds == {<<"2">>, <<"0", "2">>, <<"3">>, NoneText}
ShardJobIds == {<<"0">>, <<"1">>, <<"2">>, <<"3">>}

StoredTests == {<<"t1">>, <<"t2", "t1", "t1">>}

\* "fuzzer_job" objects: complete, or lacking job_id, or lacking tests
FuzzerJobs ==
    [job_id : StoredJobIds, tests : StoredTests]
        \cup [job_id : StoredJobIds] \cup [tests : StoredTests]

WellFormedEntries == {DictEntry(d) : d \in [commit : StoredCommits,
                                           fuzzer_job : [job_id : StoredJobIds,
                                                         tests : StoredTests]]}

\* include entries: objects that hold both, one or neither of "commit" and
\* "fuzzer_job" (an object without them carries some other key), and a
\* non-object
Entries ==
    {DictEntry(d) : d \in [commit : StoredCommits, fuzzer_job : FuzzerJobs]
                          \cup [commit : StoredCommits]
                          \cup [fuzzer_job : FuzzerJobs]
                          \cup {[note |-> 0]}}
        \cup {NonDictEntry}

UpstreamDocs ==
    {[include |-> inc] : inc \in SeqsUpTo(Entries, MaxEntries)}
        \cup {[matrix |-> [include |-> <<>>]]}

UpstreamFiles == {FileMissing, FileInvalid} \cup {FileJson(doc) : doc \in UpstreamDocs}

NoData == [none |-> 0]
NoArgv == [commit |-> <<>>, job_id |-> <<>>]

(***************************************************************************)
(* Initial states: the baseline pipeline about to run the partitioner on a *)
(* discovered corpus, or a matrix file already left by an upstream         *)
(* generator (the partitioner is not part of that run).                    *)
(***************************************************************************)
InitResolver ==
    /\ rpc = "idle"
    /\ argv = NoArgv
    /\ matrix_data = NoData
    /\ r_stdout = <<>>
    /\ r_stderr = 0
    /\ r_exit = -1
    /\ r_raised = "none"

InitPartitioner ==
    /\ all_tests = <<>>
    /\ shuffled_tests = <<>>
    /\ tests_per_job = 0
    /\ jobs = <<>>
    /\ p_exit = -1

Entropy == 0..MaxEntropy
NoRun == [file |-> FileMissing, entropy |-> 0]

BaselineInputs ==
    /\ ppc = "start"
    /\ corpus \in Corpora
    /\ seed \in Seeds
    /\ file = FileMissing
    /\ entropy \in Entropy
    /\ prev_run = NoRun

UpstreamInputs ==
    /\ ppc = "off"
    /\ corpus = <<>>
    /\ seed = 42
    /\ file \in UpstreamFiles
    /\ entropy = 0
    /\ prev_run = NoRun

InitBaseline == BaselineInputs /\ InitPartitioner /\ InitResolver

InitUpstream == UpstreamInputs /\ InitPartitioner /\ InitResolver

Init == InitBaseline \/ InitUpstream

(***************************************************************************)
(* pick_random_tests.main()                                                *)
(***************************************************************************)
\* main() without the check of lines 135-137
P_NoTestsUnchecked ==
    /\ ppc = "start"
    /\ corpus = <<>>
    /\ all_tests' = corpus
    /\ ppc' = "found"
    /\ UNCHANGED <<corpus, seed, shuffled_tests, tests_per_job, jobs, file, p_exit>>
    /\ UNCHANGED rvars
    /\ UNCHANGED hvars

\* lines 110-137: discovery returned nothing: "No tests found", sys.exit(1)
P_NoTests ==
    /\ ppc = "start"
    /\ corpus = <<>>
    /\ all_tests' = corpus
    /\ ppc' = "failed"
    /\ p_exit' = 1
    /\ UNCHANGED <<corpus, seed, shuffled_tests, tests_per_job, jobs, file>>
    /\ UNCHANGED rvars
    /\ UNCHANGED hvars

\* lines 110-139: discovery returned tests
P_Found ==
    /\ ppc = "start"
    /\ corpus # <<>>
    /\ all_tests' = corpus
    /\ ppc' = "found"
    /\ UNCHANGED <<corpus, seed, shuffled_tests, tests_per_job, jobs, file, p_exit>>
    /\ UNCHANGED rvars
    /\ UNCHANGED hvars

\* lines 141-148: seed, copy, shuffle
P_Shuffle ==
    /\ ppc = "found"
    /\ shuffled_tests' = SeedAndShuffle(entropy, all_tests, seed)
    /\ ppc' = "shuffled"
    /\ UNCHANGED <<corpus, seed, all_tests, tests_per_job, jobs, file, p_exit>>
    /\ UNCHANGED rvars
    /\ UNCHANGED hvars

\* lines 150-161: ceiling division and the split loop
P_Split ==
    /\ ppc = "shuffled"
    /\ tests_per_job' = TestsPerJob(Len(shuffled_tests))
    /\ jobs' = SplitJobs(shuffled_tests, TestsPerJob(Len(shuffled_tests)))
    /\ ppc' = "split"
    /\ UNCHANGED <<corpus, seed, all_tests, shuffled_tests, file, p_exit>>
    /\ UNCHANGED rvars
    /\ UNCHANGED hvars

\* lines 163-173: build the output document and write it
P_Write ==
    /\ ppc = "split"
    /\ file' = FileJson(OutputDoc(jobs, Len(shuffled_tests), tests_per_job))
    /\ ppc' = "written"
    /\ p_exit' = 0
    /\ UNCHANGED <<corpus, seed, all_tests, shuffled_tests, tests_per_job, jobs>>
    /\ UNCHANGED rvars
    /\ UNCHANGED hvars

\* a second invocation with the same arguments, in a new process: the file of
\* the first run is kept aside for comparison
P_Rerun(e) ==
    /\ ppc = "written"
    /\ rpc = "idle"
    /\ prev_run.file = FileMissing
    /\ prev_run' = [file |-> file, entropy |-> entropy]
    /\ entropy' = e
    /\ ppc' = "start"
    /\ all_tests' = <<>>
    /\ shuffled_tests' = <<>>
    /\ tests_per_job' = 0
    /\ jobs' = <<>>
    /\ p_exit' = -1
    /\ UNCHANGED <<corpus, seed, file>>
    /\ UNCHANGED rvars

(***************************************************************************)
(* extract_matrix_tests.main(), run once the file is at rest               *)
(***************************************************************************)
CanInvoke == rpc = "idle" /\ ppc \in {"off", "written", "failed"}

\* lines 70-76: the matrix file does not exist
R_NoFile(commit, job_id) ==
    /\ CanInvoke
    /\ file = FileMissing
    /\ argv' = [commit |-> commit, job_id |-> job_id]
    /\ r_stderr' = r_stderr + 1
    /\ r_exit' = 1
    /\ rpc' = "exited"
    /\ UNCHANGED <<matrix_data, r_stdout, r_raised, file>>
    /\ UNCHANGED pvars

\* lines 78-86: json.load fails
R_BadJson(commit, job_id) ==
    /\ CanInvoke
    /\ file = FileInvalid
    /\ argv' = [commit |-> commit, job_id |-> job_id]
    /\ r_stderr' = r_stderr + 1
    /\ r_exit' = 1
    /\ rpc' = "exited"
    /\ UNCHANGED <<matrix_data, r_stdout, r_raised, file>>
    /\ UNCHANGED pvars

\* lines 70-80: json.load succeeds
R_Load(commit, job_id) ==
    /\ CanInvoke
    /\ file.state = "json"
    /\ argv' = [commit |-> commit, job_id |-> job_id]
    /\ matrix_data' = file.doc
    /\ rpc' = "loaded"
    /\ UNCHANGED <<r_stdout, r_stderr, r_exit, r_raised, file>>
    /\ UNCHANGED pvars

\* lines 88-116: find_matching_entry and what main() makes of its outcome
R_Resolve ==
    /\ rpc = "loaded"
    /\ LET res == find_matching_entry(matrix_data, argv.commit, argv.job_id)
       IN CASE res.out = "ValueError" ->
                 \* line 25 raises; nothing in main() catches it: the interpreter
                 \* prints the traceback to the error stream and exits with status 1
                 /\ r_raised' = "ValueError"
                 /\ r_stderr' = r_stderr + 1
                 /\ r_exit' = 1
                 /\ r_stdout' = r_stdout
            [] res.out = "none" ->
                 \* lines 91-113
                 /\ r_raised' = r_raised
                 /\ r_stderr' = r_stderr + 1
                 /\ r_exit' = 1
                 /\ r_stdout' = r_stdout
            [] OTHER ->
                 \* line 116
                 /\ r_raised' = r_raised
                 /\ r_stderr' = r_stderr
                 /\ r_exit' = 0
                 /\ r_stdout' = Append(r_stdout, res.tests)
    /\ rpc' = "exited"
    /\ UNCHANGED <<argv, matrix_data, file>>
    /\ UNCHANGED pvars

\* The baseline pipeline: the partitioner, then the resolver asked for a shard.
NextBaseline ==
    \/ P_NoTests
    \/ P_Found
    \/ P_Shuffle
    \/ P_Split
    \/ P_Write
    \/ \E commit \in QueryCommits, job_id \in ShardJobIds : R_NoFile(commit, job_id)
    \/ \E commit \in QueryCommits, job_id \in ShardJobIds : R_Load(commit, job_id)
    \/ R_Resolve

\* The resolver on a matrix file of an upstream generator.
NextUpstream ==
    \/ \E commit \in QueryCommits, job_id \in QueryJobIds : R_NoFile(commit, job_id)
    \/ \E commit \in QueryCommits, job_id \in QueryJobIds : R_BadJson(commit, job_id)
    \/ \E commit \in QueryCommits, job_id \in QueryJobIds : R_Load(commit, job_id)
    \/ R_Resolve

\* The partitioner run twice with the same arguments.
NextRerun ==
    \/ P_NoTests
    \/ P_Found
    \/ P_Shuffle
    \/ P_Split
    \/ P_Write
    \/ \E e \in Entropy : P_Rerun(e)

Next == NextBaseline \/ NextUpstream \/ NextRerun

Spec == Init /\ [][Next]_vars

SpecRerun == InitBaseline /\ [][NextRerun]_vars

SpecBaseline == InitBaseline /\ [][NextBaseline]_vars

SpecUpstream == InitUpstream /\ [][NextUpstream]_vars

(***************************************************************************)
(* Properties of the partitioner.                                          *)
(***************************************************************************)
TargetShardCount == 4

Split == ppc \in {"split", "written"}

RECURSIVE Flatten(_)
Flatten(js) == IF js = <<>> THEN <<>> ELSE Head(js).tests \o Flatten(Tail(js))

Count(s, t) == Cardinality({k \in DOMAIN s : s[k] = t})

SameMultiset(s, t) ==
    /\ Len(s) = Len(t)
    /\ \A k \in DOMAIN s : Count(s, s[k]) = Count(t, s[k])
    /\ \A k \in DOMAIN t : Count(s, t[k]) = Count(t, t[k])

CeilDiv(n, d) == IF n % d = 0 THEN n \div d ELSE (n \div d) + 1

Size(k) == Len(jobs[k].tests)

\* the shards as a reader of the written file sees them
WrittenShards == file.doc.matrix.include

\* C1: once the corpus is split, the shards' tests lists, concatenated, hold
\* every test of the corpus exactly as often as the corpus does and nothing
\* else; the file written holds those same shards.
C1_ShardsArePermutation ==
    /\ Split => SameMultiset(Flatten(jobs), corpus)
    /\ ppc = "written" =>
          /\ Len(WrittenShards) = Len(jobs)
          /\ \A k \in DOMAIN jobs : WrittenShards[k].d.tests = jobs[k].tests

C1_Witness ==
    /\ ppc = "written"
    /\ Len(jobs) = TargetShardCount
    /\ shuffled_tests # corpus
    /\ Count(corpus, "t1") = 3
    /\ Count(corpus, "t2") = 4
    /\ Count(corpus, "t3") = 1

\* C2: the partitioner emits exactly the target number of shards for every
\* corpus of at least that many tests, emits fewer only for a smaller
\* corpus, and emits no empty shard.
C2_ShardCountIsTarget ==
    Split =>
        /\ Len(corpus) >= TargetShardCount => Len(jobs) = TargetShardCount
        /\ Len(jobs) < TargetShardCount => Len(corpus) < TargetShardCount
        /\ \A k \in DOMAIN jobs : Size(k) >= 1

\* C3 as stated: the sizes of any two shards differ by at most one test.
C3_SizesDifferByAtMostOne ==
    Split => \A k, m \in DOMAIN jobs : Size(k) - Size(m) <= 1

\* C3 as amended: the sizes of any two shards differ by at most three tests
\* (the target shard count less one).
C3_SizesDifferByAtMostThree ==
    Split => \A k, m \in DOMAIN jobs : Size(k) - Size(m) <= TargetShardCount - 1

C3_Witness ==
    /\ Split
    /\ \E k, m \in DOMAIN jobs : Size(k) - Size(m) = TargetShardCount - 1

\* C4: every shard but the last has exactly ceil(|T|/4) tests, and the last
\* has between 1 and ceil(|T|/4) tests.
C4_ShardSizes ==
    Split =>
        /\ Len(jobs) >= 1
        /\ \A k \in DOMAIN jobs :
              IF k < Len(jobs)
              THEN Size(k) = CeilDiv(Len(corpus), TargetShardCount)
              ELSE /\ Size(k) >= 1
                   /\ Size(k) <= CeilDiv(Len(corpus), TargetShardCount)

C4_Witness ==
    /\ Split
    /\ Len(corpus) = 7
    /\ Len(jobs) = 4
    /\ Size(1) = 2
    /\ Size(4) = 1

\* C8: on an empty corpus the partitioner exits with status 1 without ever
\* shuffling, splitting or writing, and a matrix it writes never has zero
\* shards.
C8_EmptyCorpusRejected ==
    /\ corpus = <<>> /\ ppc # "off" =>
          /\ ppc \in {"start", "failed"}
          /\ ppc = "failed" => p_exit = 1
          /\ file = FileMissing
    /\ ppc = "failed" => corpus = <<>> /\ p_exit = 1
    /\ ppc = "written" => Len(WrittenShards) >= 1

C8_Witness ==
    /\ corpus = <<>>
    /\ ppc = "failed"
    /\ p_exit = 1
    /\ file = FileMissing

(***************************************************************************)
(* Properties of the resolver.                                             *)
(***************************************************************************)
IsPrefix(p, t) == \E k \in 0..Len(t) : p = [i \in 1..k |-> t[i]]

\* commit matching as the specification words it
CommitRule(entry_commit, commit) ==
    \/ entry_commit = commit
    \/ IsPrefix(entry_commit, commit)
    \/ IsPrefix(commit, entry_commit)

\* the stored id interpreted as an integer: a number is itself, a text is parsed
StoredAsInt(x) == IF x.kind = "int" THEN [ok |-> TRUE, v |-> x.v] ELSE PyInt(x.v)

\* job-id matching as C6 states it
JobRuleAsStated(x, job_id) ==
    \/ PyStr(x) = job_id
    \/ /\ PyInt(job_id).ok
       /\ StoredAsInt(x).ok
       /\ StoredAsInt(x).v = PyInt(job_id).v

\* job-id matching as amended: the numeric comparison applies to stored numbers
JobRule(x, job_id) ==
    \/ PyStr(x) = job_id
    \/ /\ PyInt(job_id).ok
       /\ x.kind = "int"
       /\ x.v = PyInt(job_id).v

IsWellFormed(entry) == entry \in WellFormedEntries

Loaded == rpc \in {"loaded", "exited"} /\ matrix_data # NoData
HasInclude == Loaded /\ "include" \in DOMAIN matrix_data

SetMin(S) == CHOOSE k \in S : \A m \in S : k <= m

\* what main() prints and returns for an outcome of find_matching_entry
ExitedWith(res) ==
    IF res.out = "tests"
    THEN r_exit = 0 /\ r_stdout = <<res.tests>> /\ r_raised = "none"
    ELSE r_exit = 1 /\ r_stdout = <<>> /\ r_raised = "none"

\* C5: on a matrix of well-formed entries the resolver returns, unchanged, the
\* tests of the first entry whose commit and job id both match, and NotFound
\* exactly when no entry matches both.
C5_FirstMatchWins ==
    (HasInclude /\ \A k \in DOMAIN matrix_data.include :
                       IsWellFormed(matrix_data.include[k])) =>
        LET inc == matrix_data.include
            M == {k \in DOMAIN inc :
                     /\ CommitRule(inc[k].d.commit, argv.commit)
                     /\ JobRule(inc[k].d.fuzzer_job.job_id, argv.job_id)}
            expected == IF M = {} THEN ReturnedNone
                        ELSE Returned(inc[SetMin(M)].d.fuzzer_job.tests)
        IN /\ find_matching_entry(matrix_data, argv.commit, argv.job_id) = expected
           /\ rpc = "exited" => ExitedWith(expected)

\* two matching entries with different tests; the first matches by prefix
C5_Witness ==
    /\ rpc = "exited"
    /\ HasInclude
    /\ Len(matrix_data.include) = 2
    /\ \A k \in 1..2 : /\ IsWellFormed(matrix_data.include[k])
                       /\ EntryMatches(matrix_data.include[k], argv.commit, argv.job_id)
    /\ matrix_data.include[1].d.commit # argv.commit
    /\ matrix_data.include[1].d.fuzzer_job.tests = <<"t2", "t1", "t1">>
    /\ matrix_data.include[2].d.fuzzer_job.tests = <<"t1">>
    /\ r_stdout = <<(<<"t2", "t1", "t1">>)>>
    /\ r_exit = 0

\* the entries that carry a commit matching the query and a stored job id
Candidate(entry) ==
    /\ entry.isdict
    /\ "fuzzer_job" \in DOMAIN entry.d
    /\ "job_id" \in DOMAIN entry.d.fuzzer_job
    /\ CommitRule(EntryCommit(entry), argv.commit)

\* C6 as stated: given a commit-matching entry, the query matches the stored
\* job id iff their texts are equal or the query parses as an integer equal
\* to the stored id interpreted as an integer.
C6_JobIdRuleAsStated ==
    HasInclude =>
        /\ \A k \in DOMAIN matrix_data.include :
              Candidate(matrix_data.include[k]) =>
                  (JobIdMatches(EntryJobId(matrix_data.include[k]), argv.job_id)
                      <=> JobRuleAsStated(EntryJobId(matrix_data.include[k]), argv.job_id))
        /\ (rpc = "exited" /\ Len(matrix_data.include) = 1
              /\ Candidate(matrix_data.include[1])) =>
                  (r_exit = 0 <=>
                      JobRuleAsStated(EntryJobId(matrix_data.include[1]), argv.job_id))

\* C6 as amended: given a commit-matching entry, the query matches the stored
\* job id iff their texts are equal or the query parses as an integer and the
\* stored id is a number equal to it; a stored text matches by its text only.
C6_JobIdRule ==
    HasInclude =>
        /\ \A k \in DOMAIN matrix_data.include :
              Candidate(matrix_data.include[k]) =>
                  (JobIdMatches(EntryJobId(matrix_data.include[k]), argv.job_id)
                      <=> JobRule(EntryJobId(matrix_data.include[k]), argv.job_id))
        /\ (rpc = "exited" /\ Len(matrix_data.include) = 1
              /\ Candidate(matrix_data.include[1])) =>
                  (r_exit = 0 <=>
                      JobRule(EntryJobId(matrix_data.include[1]), argv.job_id))

\* the stored number 2 found by the query "02": equal as integers, not as texts
C6_Witness ==
    /\ rpc = "exited"
    /\ HasInclude
    /\ Len(matrix_data.include) = 1
    /\ Candidate(matrix_data.include[1])
    /\ EntryJobId(matrix_data.include[1]) = JInt(2)
    /\ argv.job_id = <<"0", "2">>
    /\ r_exit = 0
    /\ r_stdout = <<EntryTests(matrix_data.include[1])>>

\* C7: entries that are not structured as a MatrixEntry are skipped: the
\* resolver answers as it would on the matrix without them, and raises
\* nothing.
C7_MalformedSkipped ==
    (HasInclude /\ rpc = "exited") =>
        LET kept == SelectSeq(matrix_data.include, IsWellFormed)
        IN ExitedWith(find_matching_entry([include |-> kept], argv.commit, argv.job_id))

\* C9: every failure of the resolver run (file missing, invalid JSON, no
\* 'include' field, no matching entry) ends with a diagnostic on the error
\* stream, exit status 1, nothing on standard output and no exception
\* leaving main().
C9_FailuresAreDiagnosed ==
    (rpc = "exited" /\
        \/ file.state # "json"
        \/ "include" \notin DOMAIN matrix_data
        \/ find_matching_entry(matrix_data, argv.commit, argv.job_id).out = "none") =>
            /\ r_exit = 1
            /\ r_stderr >= 1
            /\ r_stdout = <<>>
            /\ r_raised = "none"

\* C10: the resolver, given the file the partitioner wrote (or the matrix
\* object inside it) and a shard's own job_id, recovers that shard's tests.
C10_RoundTrip ==
    (ppc = "written" /\ rpc = "exited") =>
        \A k \in DOMAIN jobs :
            argv.job_id = NatToText(jobs[k].job_id) =>
                \/ r_exit = 0 /\ r_stdout = <<jobs[k].tests>>
                \/ find_matching_entry(file.doc.matrix, argv.commit, argv.job_id)
                       = Returned(jobs[k].tests)

\* the k-th (1-based) consecutive window of width w of the sequence t
Window(t, w, k) ==
    [i \in 1..Min(w, Len(t) - (k - 1) * w) |-> t[(k - 1) * w + i]]

\* C12: the shards' job ids are 0, 1, ..., n-1 in include order, and the shard
\* with job id k holds the k-th consecutive window of the shuffled sequence,
\* in memory and in the file written.
C12_JobIdsAreWindowIndexes ==
    /\ Split =>
          \A k \in DOMAIN jobs :
              /\ jobs[k].job_id = k - 1
              /\ jobs[k].tests =
                     Window(shuffled_tests,
                            CeilDiv(Len(shuffled_tests), TargetShardCount), k)
    /\ ppc = "written" =>
          \A k \in DOMAIN WrittenShards : WrittenShards[k].d.job_id = JInt(k - 1)

C12_Witness ==
    /\ ppc = "written"
    /\ Len(jobs) = TargetShardCount
    /\ shuffled_tests # corpus
    /\ jobs[TargetShardCount].job_id = TargetShardCount - 1
    /\ jobs[2].tests # jobs[1].tests
    /\ Len(corpus) = 10

\* C11: two runs of the partitioner on the same test list with the same seed
\* write the same matrix: same shards, same tests in the same order in each
\* shard, same job ids.
C11_SameSeedSamePartition ==
    (ppc = "written" /\ prev_run.file # FileMissing) => file = prev_run.file

\* the two processes began with different generator states
C11_Witness ==
    /\ ppc = "written"
    /\ prev_run.file # FileMissing
    /\ prev_run.entropy # entropy
    /\ file = prev_run.file
    /\ Len(jobs) = TargetShardCount
    /\ shuffled_tests # corpus
====
